---- MODULE Spec2Model ----
(***************************************************************************)
(* HappyRobot Freight API (src/main.py): the authentication gate, the load *)
(* catalog loader, the load search filter and the carrier verification     *)
(* client, as a state machine over one request at a time and a catalog     *)
(* source the environment may rewrite between any two steps.               *)
(*                                                                         *)
(* Conventions.  A Python str that the code inspects character by          *)
(* character (headers, identifiers, queries, record fields) is a sequence  *)
(* of one-character strings.  A fixed message is a sequence of one chunk.  *)
(* An Optional value is a sequence of length 0 (None) or 1 (the value).    *)
(***************************************************************************)
EXTENDS Integers, Sequences, FiniteSets, TLC

VARIABLES
  API_KEY,        \* the configured service secret (line 17)
  FMCSA_API_KEY,  \* the configured registry credential (line 20)
  loadsFile,      \* the content of loads.json
  req,            \* the request being handled
  pc,             \* "idle", "awaiting" (the lookup is in flight) or "done"
  calls,          \* lookups this request has issued
  reads,          \* catalog reads this request has made
  seen,           \* history: the content the loader last read
  changed,        \* history: that read found other content than the read before it
  outcome,        \* how this request's lookup ended
  resp            \* the response of this request

vars == <<API_KEY, FMCSA_API_KEY, loadsFile, req, pc, calls, reads, seen, changed, outcome, resp>>

(***************************************************************************)
(* Python str and container primitives                                     *)
(***************************************************************************)
None == <<>>

Some(v) == <<v>>

Min(S) == CHOOSE x \in S : \A y \in S : x <= y

Max(S) == CHOOSE x \in S : \A y \in S : x >= y

UpperLetters == <<"A","B","C","D","E","F","G","H","I","J","K","L","M",
                  "N","O","P","Q","R","S","T","U","V","W","X","Y","Z">>

LowerLetters == <<"a","b","c","d","e","f","g","h","i","j","k","l","m",
                  "n","o","p","q","r","s","t","u","v","w","x","y","z">>

LowerChar(c) ==
  IF \E i \in 1..26 : UpperLetters[i] = c
    THEN LowerLetters[CHOOSE i \in 1..26 : UpperLetters[i] = c]
    ELSE c

\* str.lower()
Lower(s) == [i \in 1..Len(s) |-> LowerChar(s[i])]

IsSpace(c) == c \in {" ", "\t", "\n"}

\* str.strip()
Strip(s) ==
  LET keep == {i \in 1..Len(s) : ~IsSpace(s[i])}
  IN  IF keep = {} THEN <<>> ELSE SubSeq(s, Min(keep), Max(keep))

IsDigitChar(c) == c \in {"0","1","2","3","4","5","6","7","8","9"}

\* a validation that is content with one digit somewhere
IsDigit_some(s) == \E i \in 1..Len(s) : IsDigitChar(s[i])

\* str.isdigit(): non-empty and every character a digit
IsDigit(s) == Len(s) > 0 /\ \A i \in 1..Len(s) : IsDigitChar(s[i])

\* needle in hay
Contains(needle, hay) ==
  \E i \in 0..(Len(hay) - Len(needle)) : SubSeq(hay, i + 1, i + Len(needle)) = needle

\* str.split(" ", 1)
SplitOnce(s) ==
  LET sp == {i \in 1..Len(s) : s[i] = " "}
  IN  IF sp = {} THEN <<s>>
      ELSE <<SubSeq(s, 1, Min(sp) - 1), SubSeq(s, Min(sp) + 1, Len(s))>>

\* seq[:n]
Take(s, n) == SubSeq(s, 1, IF n < Len(s) THEN n ELSE Len(s))

\* dict.get(k, default)
Get(d, k, default) == IF k \in DOMAIN d THEN d[k] ELSE default

\* truthiness of an Optional str: None and "" are falsy
Truthy(o) == o # None /\ o[1] # <<>>

(***************************************************************************)
(* Responses                                                               *)
(***************************************************************************)
NoVerdict == <<>>

HTTPException(status_code, detail) ==
  [status_code |-> status_code, detail |-> detail, verdict |-> NoVerdict, loads |-> <<>>,
   loads_available |-> 0]

Ok == [status_code |-> 200, detail |-> <<>>, verdict |-> NoVerdict, loads |-> <<>>,
       loads_available |-> 0]

LoadsResponse(loads) == [Ok EXCEPT !.loads = loads]

CarrierVerificationResponse(mc, eligible, company, rating, status, message) ==
  [Ok EXCEPT !.verdict =
     <<[mc_number |-> mc, is_eligible |-> eligible, company_name |-> company,
        safety_rating |-> rating, operating_status |-> status, message |-> message]>>]

\* an exception no handler catches: the framework's 500
Unhandled == HTTPException(500, <<"Internal Server Error">>)

(***************************************************************************)
(* Authentication gate                                                     *)
(***************************************************************************)
sApiKey == <<"A","p","i","K","e","y">>

\* a gate that checks the scheme and never compares the token
verify_api_key_scheme_only(authorization, key) ==
  IF ~Truthy(authorization)
    THEN Some(HTTPException(403, <<"Missing Authorization header">>))
  ELSE LET parts == SplitOnce(authorization[1])
       IN  IF Len(parts) # 2 \/ parts[1] # sApiKey
             THEN Some(HTTPException(403,
                    <<"Invalid Authorization format. Expected: ApiKey <key>">>))
           ELSE None

\* None when the header is accepted, else the raised HTTPException
verify_api_key(authorization, key) ==
  IF ~Truthy(authorization)
    THEN Some(HTTPException(403, <<"Missing Authorization header">>))
  ELSE LET parts == SplitOnce(authorization[1])
       IN  IF Len(parts) # 2 \/ parts[1] # sApiKey
             THEN Some(HTTPException(403,
                    <<"Invalid Authorization format. Expected: ApiKey <key>">>))
           ELSE IF parts[2] # key
             THEN Some(HTTPException(403, <<"Invalid API Key">>))
           ELSE None

(***************************************************************************)
(* Load catalog loader                                                     *)
(***************************************************************************)
\* What json.load yields is a list of records, an object (iterated by key),
\* or a number; a file may also be absent or not JSON at all.
EmptyList == [kind |-> "list", items |-> <<>>]

load_loads_from_file(file) ==
  IF file.kind = "absent" THEN EmptyList
  ELSE IF file.kind = "invalid" THEN EmptyList      \* json.load raises
  ELSE IF file.kind = "number" THEN EmptyList       \* len(loads) raises
  ELSE [kind |-> file.kind, items |-> file.items]

(***************************************************************************)
(* Load search filter                                                      *)
(***************************************************************************)
RECURSIVE SelectIdx(_, _, _)
\* [x for x in s if keep[x]] with s a sequence and keep a set of positions
SelectIdx(s, keep, i) ==
  IF i > Len(s) THEN <<>>
  ELSE (IF i \in keep THEN <<s[i]>> ELSE <<>>) \o SelectIdx(s, keep, i + 1)

OriginKeeps(load, q) == Contains(Strip(Lower(q)), Lower(Get(load, "origin", <<>>)))

DestinationKeeps(load, q) == Contains(Strip(Lower(q)), Lower(Get(load, "destination", <<>>)))

\* an equipment filter that matches by containment, as the other two do
EquipmentKeeps_substring(load, q) ==
  Contains(Strip(Lower(q)), Lower(Get(load, "equipment_type", <<>>)))

EquipmentKeeps(load, q) == Lower(Get(load, "equipment_type", <<>>)) = Strip(Lower(q))

FilterOrigin(results, origin) ==
  IF Truthy(origin)
    THEN SelectIdx(results, {i \in 1..Len(results) : OriginKeeps(results[i], origin[1])}, 1)
    ELSE results

FilterDestination(results, destination) ==
  IF Truthy(destination)
    THEN SelectIdx(results,
           {i \in 1..Len(results) : DestinationKeeps(results[i], destination[1])}, 1)
    ELSE results

FilterEquipment(results, equipment_type) ==
  IF Truthy(equipment_type)
    THEN SelectIdx(results,
           {i \in 1..Len(results) : EquipmentKeeps(results[i], equipment_type[1])}, 1)
    ELSE results

\* a slice that is one too long
Limit_off_by_one(results, max_results) == Take(results, max_results + 1)

Limit(results, max_results) == Take(results, max_results)

\* the handler's body after the gate, on what the loader returned
search_loads(all_loads, origin, destination, equipment_type, max_results) ==
  IF all_loads.items = <<>> THEN LoadsResponse(<<>>)
  ELSE IF all_loads.kind # "list" THEN Unhandled
  ELSE LET r1 == FilterOrigin(all_loads.items, origin)
           r2 == FilterDestination(r1, destination)
           r3 == FilterEquipment(r2, equipment_type)
       IN  IF r3 = <<>> THEN LoadsResponse(<<>>)
           ELSE LoadsResponse(Limit(r3, max_results))

(***************************************************************************)
(* Carrier verification client                                             *)
(***************************************************************************)
EmptyDict == [k \in {} |-> None]

\* JSON values of the registry's body; members is the dict of an object
JNull == [type |-> "null", str |-> <<>>, members |-> EmptyDict]

JStr(s) == [type |-> "string", str |-> s, members |-> EmptyDict]

JObj(m) == [type |-> "object", str |-> <<>>, members |-> m]

\* a non-empty JSON array; its items are never read
JArr == [type |-> "array", str |-> <<>>, members |-> EmptyDict]

\* bool(v) of a parsed JSON value
JTruthy(v) ==
  CASE v.type = "null" -> FALSE
    [] v.type = "string" -> v.str # <<>>
    [] v.type = "object" -> DOMAIN v.members # {}
    [] OTHER -> TRUE

\* the Optional[str] a response field holds for a JSON string or null
ToOptional(v) == IF v.type = "null" THEN None ELSE Some(v.str)

DigitChars == <<"0","1","2","3","4","5","6","7","8","9">>

RECURSIVE Str(_)
\* str(n) of a natural number
Str(n) == IF n < 10 THEN <<DigitChars[n + 1]>> ELSE Str(n \div 10) \o <<DigitChars[(n % 10) + 1]>>

EXCERPT_LEN == 200

\* str(e) of a raised HTTPException: "<status_code>: <detail>"
StrOfHTTPException(e) == Str(e.status_code) \o <<": ">> \o e.detail

\* a handler that never checks the registry credential
FmcsaConfigured_unchecked(key) == TRUE

FmcsaConfigured(key) == key # <<>>

IsY(v) == v.type = "string" /\ v.str = <<"Y">>

\* an eligibility that tests the date by truthiness, as the status label does
IsEligible_truthy(allowed_to_operate, oos_date) == IsY(allowed_to_operate) /\ ~JTruthy(oos_date)

\* allowed_to_operate == "Y" and oos_date is None
IsEligible(allowed_to_operate, oos_date) == IsY(allowed_to_operate) /\ oos_date.type = "null"

OperatingStatus(allowed_to_operate, oos_date) ==
  IF JTruthy(oos_date) THEN <<"Out of Service">>
  ELSE IF IsY(allowed_to_operate) THEN <<"Active">>
  ELSE <<"Not Authorized">>

CompanyName(carrier) ==
  LET legal == Get(carrier, "legalName", JNull)
  IN  IF JTruthy(legal) THEN legal ELSE Get(carrier, "dbaName", JStr(<<"Unknown">>))

Returned(r) == [raises |-> "none", value |-> r, text |-> <<>>]

Raised(kind, e, text) == [raises |-> kind, value |-> e, text |-> text]

NotFound(mc) ==
  CarrierVerificationResponse(mc, FALSE, None, None, None,
                              <<"Carrier not found in FMCSA database">>)

\* lines 181-232: the body of a 200 response
ParseCarrier(mc, body) ==
  IF body.type = "notjson" THEN Raised("Exception", Unhandled, <<"JSONDecodeError">>)
  ELSE IF body.type # "object" THEN Raised("Exception", Unhandled, <<"AttributeError">>)
  ELSE LET content == Get(body.members, "content", JObj(EmptyDict))
       IN  IF ~JTruthy(content) THEN Returned(NotFound(mc))
           ELSE IF content.type # "object"
             THEN Raised("Exception", Unhandled, <<"AttributeError">>)
           ELSE LET carrier == Get(content.members, "carrier", JObj(EmptyDict))
                IN  IF ~JTruthy(carrier)
                      THEN Returned(CarrierVerificationResponse(mc, FALSE, None, None, None,
                                      <<"Carrier information not available">>))
                    ELSE IF carrier.type # "object"
                      THEN Raised("Exception", Unhandled, <<"AttributeError">>)
                    ELSE LET c == carrier.members
                             allowed == Get(c, "allowedToOperate", JStr(<<"N">>))
                             oos == Get(c, "oosDate", JNull)
                             eligible == IsEligible(allowed, oos)
                         IN  Returned(CarrierVerificationResponse(mc, eligible,
                               ToOptional(CompanyName(c)),
                               ToOptional(Get(c, "safetyRating", JNull)),
                               Some(OperatingStatus(allowed, oos)),
                               IF eligible THEN <<"Carrier is eligible to operate">>
                                           ELSE <<"Carrier is not eligible to operate">>))

\* lines 160-232: what the try block returns or raises once the lookup ends
TryBlock(mc, out) ==
  IF out.kind = "timeout" THEN Raised("TimeoutException", Unhandled, <<"timed out">>)
  ELSE IF out.kind = "request_error"
    THEN Raised("RequestError", Unhandled, <<"connection failed">>)
  ELSE IF out.status_code = 404 THEN Returned(NotFound(mc))
  ELSE IF out.status_code = 401
    THEN LET e == HTTPException(500, <<"Invalid FMCSA API key">>)
         IN  Raised("HTTPException", e, StrOfHTTPException(e))
  ELSE IF out.status_code # 200
    THEN LET e == HTTPException(500, <<"FMCSA API error: ">> \o Str(out.status_code)
                                     \o <<" - ">> \o Take(out.text, EXCERPT_LEN))
         IN  Raised("HTTPException", e, StrOfHTTPException(e))
  ELSE ParseCarrier(mc, out.body)

\* lines 234-243: the except clauses, in order
ExceptClauses(t) ==
  IF t.raises = "none" THEN t.value
  ELSE IF t.raises = "TimeoutException"
    THEN HTTPException(504, <<"FMCSA API request timed out">>)
  ELSE IF t.raises = "RequestError"
    THEN HTTPException(500, <<"Error connecting to FMCSA API: ">> \o t.text)
  ELSE HTTPException(500, <<"Unexpected error: ">> \o t.text)

(***************************************************************************)
(* Inputs                                                                  *)
(***************************************************************************)
\* largest result cap tried below the endpoint's maximum
CapBound == 2

MAX_RESULTS_LE == 20

Caps == (1..CapBound) \cup {MAX_RESULTS_LE}

sSecret == <<"k">>

sWebKey == <<"w">>

sBearer == <<"B","e","a","r","e","r">>

sApiKeyLower == <<"a","p","i","k","e","y">>

Headers ==
  { None,
    Some(<<>>),
    Some(sApiKey),
    Some(sApiKey \o <<" ">>),
    Some(sApiKey \o <<" ">> \o sSecret),
    Some(sApiKey \o <<" ", " ">> \o sSecret),
    Some(sApiKey \o <<" ", "x">>),
    Some(sApiKeyLower \o <<" ">> \o sSecret),
    Some(sBearer \o <<" ">> \o sSecret),
    Some(sSecret) }

McNumbers ==
  { <<>>, <<" ">>, <<"1","2","3">>, <<" ","1","2","3"," ">>, <<"1","2","a">>,
    <<"1"," ","2">> }

sChicago == <<"C","h","i","c","a","g","o",","," ","I","L">>

sChicagoUpper == <<"C","H","I","C","A","G","O",","," ","i","l">>

sDallas == <<"D","a","l","l","a","s",","," ","T","X">>

sDryVan == <<"D","r","y"," ","V","a","n">>

sDryVanLower == <<"d","r","y"," ","v","a","n">>

sDryVanPlus == sDryVan \o <<" ","P","l","u","s">>

sReefer == <<"R","e","e","f","e","r">>

Load1 == [load_id |-> "L1", origin |-> sChicago, destination |-> sDallas,
          equipment_type |-> sDryVan]

Load2 == [load_id |-> "L2", origin |-> sDallas, destination |-> sChicago,
          equipment_type |-> sReefer]

Load3 == [load_id |-> "L3", origin |-> sChicagoUpper, destination |-> sDallas,
          equipment_type |-> sDryVanPlus]

Load4 == [load_id |-> "L4", origin |-> sChicago, destination |-> sDallas,
          equipment_type |-> sDryVanLower]

\* a record without destination and equipment_type
Load5 == [load_id |-> "L5", origin |-> sChicago]

Sources ==
  { [kind |-> "absent", items |-> <<>>],
    [kind |-> "invalid", items |-> <<>>],
    [kind |-> "number", items |-> <<>>],
    [kind |-> "object", items |-> <<[key |-> "loads"]>>],
    [kind |-> "list", items |-> <<>>],
    [kind |-> "list", items |-> <<Load1, Load2, Load3, Load4, Load5>>],
    [kind |-> "list", items |-> <<Load4, Load3, Load1>>] }

OriginQueries == { None, Some(<<>>), Some(<<" ","C","H","I"," ">>) }

DestinationQueries == { None, Some(<<"t","x">>) }

EquipmentQueries == { None, Some(<<>>), Some(<<" ">>), Some(sDryVanLower \o <<" ">>) }

Opt(k, o) == IF o = None THEN EmptyDict ELSE (k :> o[1])

CarrierOf(allowed, oos, legal, dba, rating) ==
  ("dotNumber" :> JStr(<<"1">>)) @@ Opt("allowedToOperate", allowed) @@ Opt("oosDate", oos)
    @@ Opt("legalName", legal) @@ Opt("dbaName", dba) @@ Opt("safetyRating", rating)

Names ==
  { <<None, None, None>>,
    <<Some(JStr(<<"ABC Trucking LLC">>)), Some(JStr(<<"ABC">>)), Some(JStr(<<"Satisfactory">>))>>,
    <<Some(JStr(<<>>)), Some(JNull), Some(JNull)>> }

Carriers ==
  { CarrierOf(a, o, n[1], n[2], n[3]) :
      a \in {None, Some(JNull), Some(JStr(<<"Y">>)), Some(JStr(<<"N">>)), Some(JStr(<<"y">>))},
      o \in {None, Some(JNull), Some(JStr(<<>>)), Some(JStr(<<"2023-01-01">>))},
      n \in Names }

NotJson == [type |-> "notjson", str |-> <<>>, members |-> EmptyDict]

Content(c) == JObj("content" :> c)

Bodies ==
  { NotJson, JArr, JObj(EmptyDict), Content(JNull), Content(JArr),
    Content(JObj("x" :> JNull)), Content(JObj("carrier" :> JNull)),
    Content(JObj("carrier" :> JObj(EmptyDict))), Content(JObj("carrier" :> JStr(<<"x">>))) }
  \cup { Content(JObj("carrier" :> JObj(c))) : c \in Carriers }

ShortText == <<"o","o","p","s">>

LongText == [i \in 1..(EXCERPT_LEN + 1) |-> "x"]

Outcomes ==
  { [kind |-> k, status_code |-> 0, text |-> <<>>, body |-> NotJson] :
      k \in {"timeout", "request_error"} }
  \cup { [kind |-> "response", status_code |-> st, text |-> t, body |-> NotJson] :
           st \in {404, 401, 500, 503}, t \in {ShortText, LongText} }
  \cup { [kind |-> "response", status_code |-> 200, text |-> ShortText, body |-> b] :
           b \in Bodies }

(***************************************************************************)
(* The service                                                             *)
(***************************************************************************)
Request(endpoint, authorization, mc_number, origin, destination, equipment_type, max_results) ==
  [endpoint |-> endpoint, authorization |-> authorization, mc_number |-> mc_number,
   origin |-> origin, destination |-> destination, equipment_type |-> equipment_type,
   max_results |-> max_results]

NoRequest == Request("none", None, <<>>, None, None, None, 0)

Pending == [Ok EXCEPT !.status_code = 0]

Init ==
  /\ API_KEY \in {<<>>, sSecret}
  /\ FMCSA_API_KEY \in {<<>>, sWebKey}
  /\ loadsFile \in Sources
  /\ req = NoRequest
  /\ pc = "idle"
  /\ calls = 0
  /\ reads = 0
  /\ seen = None
  /\ changed = FALSE
  /\ outcome = None
  /\ resp = Pending

\* the environment rewrites, removes or corrupts loads.json
WriteLoadsFile(file) ==
  /\ file # loadsFile
  /\ loadsFile' = file
  /\ UNCHANGED <<API_KEY, FMCSA_API_KEY, req, pc, calls, reads, seen, changed, outcome, resp>>

\* GET /
root ==
  /\ pc = "idle"
  /\ req' = Request("root", None, <<>>, None, None, None, 0)
  /\ reads' = 1
  /\ seen' = Some(loadsFile)
  /\ changed' = (seen # None /\ seen # Some(loadsFile))
  /\ resp' = [Ok EXCEPT !.loads_available = Len(load_loads_from_file(loadsFile).items)]
  /\ pc' = "done"
  /\ calls' = 0
  /\ outcome' = None
  /\ UNCHANGED <<API_KEY, FMCSA_API_KEY, loadsFile>>

\* a search that keeps the catalog it read first
SearchLoads_cached(authorization, origin, destination, equipment_type, max_results) ==
  /\ pc = "idle"
  /\ req' = Request("search", authorization, <<>>, origin, destination, equipment_type,
                    max_results)
  /\ LET denied == verify_api_key(authorization, API_KEY)
         cached == IF seen # None THEN seen[1] ELSE loadsFile
     IN  IF denied # None
           THEN /\ resp' = denied[1]
                /\ reads' = 0
                /\ UNCHANGED <<seen, changed>>
           ELSE /\ resp' = search_loads(load_loads_from_file(cached), origin, destination,
                                        equipment_type, max_results)
                /\ reads' = 1
                /\ seen' = Some(cached)
                /\ changed' = (seen # None /\ seen # Some(loadsFile))
  /\ pc' = "done"
  /\ calls' = 0
  /\ outcome' = None
  /\ UNCHANGED <<API_KEY, FMCSA_API_KEY, loadsFile>>

\* GET /api/v1/loads/search
SearchLoads(authorization, origin, destination, equipment_type, max_results) ==
  /\ pc = "idle"
  /\ req' = Request("search", authorization, <<>>, origin, destination, equipment_type,
                    max_results)
  /\ LET denied == verify_api_key(authorization, API_KEY)
     IN  IF denied # None
           THEN /\ resp' = denied[1]
                /\ reads' = 0
                /\ UNCHANGED <<seen, changed>>
           ELSE /\ resp' = search_loads(load_loads_from_file(loadsFile), origin, destination,
                                        equipment_type, max_results)
                /\ reads' = 1
                /\ seen' = Some(loadsFile)
                /\ changed' = (seen # None /\ seen # Some(loadsFile))
  /\ pc' = "done"
  /\ calls' = 0
  /\ outcome' = None
  /\ UNCHANGED <<API_KEY, FMCSA_API_KEY, loadsFile>>

\* GET /api/v1/verify-carrier/{mc_number}, up to the await of the lookup
VerifyCarrier(authorization, mc_number) ==
  /\ pc = "idle"
  /\ req' = Request("verify", authorization, mc_number, None, None, None, 0)
  /\ reads' = 0
  /\ outcome' = None
  /\ LET denied == verify_api_key(authorization, API_KEY)
         mc == Strip(mc_number)
     IN  IF denied # None
           THEN resp' = denied[1] /\ pc' = "done" /\ calls' = 0
         ELSE IF ~IsDigit(mc)
           THEN /\ resp' = CarrierVerificationResponse(mc, FALSE, None, None, None,
                                                       <<"Invalid MC number format">>)
                /\ pc' = "done"
                /\ calls' = 0
         ELSE IF ~FmcsaConfigured(FMCSA_API_KEY)
           THEN /\ resp' = HTTPException(500,
                     <<"FMCSA API key not configured. Set FMCSA_API_KEY environment variable.">>)
                /\ pc' = "done"
                /\ calls' = 0
         ELSE resp' = Pending /\ pc' = "awaiting" /\ calls' = 1
  /\ UNCHANGED <<API_KEY, FMCSA_API_KEY, loadsFile, seen, changed>>

\* the lookup ends (a response, a timeout or a connection failure) and the
\* handler runs to its return or raise
FmcsaReply(out) ==
  /\ pc = "awaiting"
  /\ outcome' = Some(out)
  /\ resp' = ExceptClauses(TryBlock(Strip(req.mc_number), out))
  /\ pc' = "done"
  /\ UNCHANGED <<API_KEY, FMCSA_API_KEY, loadsFile, req, calls, reads, seen, changed>>

\* the response is sent and the request's state is dropped
Deliver ==
  /\ pc = "done"
  /\ pc' = "idle"
  /\ req' = NoRequest
  /\ resp' = Pending
  /\ calls' = 0
  /\ reads' = 0
  /\ outcome' = None
  /\ UNCHANGED <<API_KEY, FMCSA_API_KEY, loadsFile, seen, changed>>

Next ==
  \/ \E file \in Sources : WriteLoadsFile(file)
  \/ root
  \/ \E a \in Headers, o \in OriginQueries, d \in DestinationQueries,
        e \in EquipmentQueries, n \in Caps : SearchLoads(a, o, d, e, n)
  \/ \E a \in Headers, mc \in McNumbers : VerifyCarrier(a, mc)
  \/ \E out \in Outcomes : FmcsaReply(out)
  \/ Deliver

Spec == Init /\ [][Next]_vars

(***************************************************************************)
(* Properties                                                              *)
(***************************************************************************)
Protected == req.endpoint \in {"search", "verify"}

\* the one header value that presents the configured secret: "ApiKey <secret>"
ValidCredential(r) == r.authorization = Some(sApiKey \o <<" ">> \o API_KEY)

Rejected403 == pc = "done" /\ resp.status_code = 403 /\ reads = 0 /\ calls = 0

\* C1: a request to a protected endpoint whose Authorization header is absent,
\* malformed, of another scheme or carries a token other than the configured
\* secret is rejected with 403 before the catalog is read or the registry called.
C1_BadCredentialRejected ==
  (pc # "idle" /\ Protected /\ ~ValidCredential(req)) => Rejected403

C1_Witness ==
  /\ pc = "done"
  /\ req.endpoint = "search"
  /\ req.authorization = Some(sApiKey \o <<" ", "x">>)
  /\ resp.status_code = 403
  /\ reads = 0

FormatVerdict ==
  /\ pc = "done"
  /\ calls = 0
  /\ resp.status_code = 200
  /\ resp.verdict # NoVerdict
  /\ resp.verdict[1].is_eligible = FALSE
  /\ resp.verdict[1].message = <<"Invalid MC number format">>

AuthenticatedVerify == pc # "idle" /\ req.endpoint = "verify" /\ ValidCredential(req)

\* C2 as stated: an authenticated verify-carrier request whose identifier is
\* empty or contains any non-digit character, surrounding whitespace included,
\* gets the format-error verdict and no external call.
C2_Original_NonDigitRejected ==
  (AuthenticatedVerify /\ ~IsDigit(req.mc_number)) => FormatVerdict

\* C2 amended: an authenticated verify-carrier request whose identifier, once
\* its leading and trailing whitespace is stripped, is empty or contains a
\* non-digit character gets the format-error verdict and no external call,
\* whether or not the registry credential is configured; an identifier that is
\* all digits apart from surrounding whitespace is not rejected for its format.
C2_StrippedNonDigitRejected ==
  AuthenticatedVerify =>
    (FormatVerdict <=> \/ Strip(req.mc_number) = <<>>
                       \/ \E i \in 1..Len(Strip(req.mc_number)) :
                            ~IsDigitChar(Strip(req.mc_number)[i]))

C2_Witness ==
  /\ FormatVerdict
  /\ AuthenticatedVerify
  /\ req.mc_number = <<"1", " ", "2">>
  /\ FMCSA_API_KEY = <<>>

\* a search that passed the gate and read a list of records
SearchAnswered ==
  /\ pc = "done"
  /\ req.endpoint = "search"
  /\ ValidCredential(req)
  /\ seen # None
  /\ seen[1].kind = "list"

\* the catalog that search read
Catalog == seen[1].items

\* a filter the request supplies: a query parameter given with a non-empty
\* value (a parameter given as the empty string is no filter: lines 274, 283
\* and 292 test the string's truth)
Supplied(q) == q # None /\ Len(q[1]) > 0

SatisfiesFilters(load, r) ==
  /\ Supplied(r.origin) =>
       Contains(Lower(Strip(r.origin[1])), Lower(Get(load, "origin", <<>>)))
  /\ Supplied(r.destination) =>
       Contains(Lower(Strip(r.destination[1])), Lower(Get(load, "destination", <<>>)))
  /\ Supplied(r.equipment_type) =>
       Lower(Get(load, "equipment_type", <<>>)) = Lower(Strip(r.equipment_type[1]))

\* C3: every record search_loads returns is a record of the catalog and
\* satisfies every supplied filter (origin and destination by case-insensitive
\* containment of the trimmed query, equipment type by case-insensitive equality
\* with the trimmed query, so "Dry Van Plus" does not match "dry van"); a record
\* that satisfies them is excluded by nothing but the cap.
C3_SubsetSatisfyingFilters ==
  SearchAnswered =>
    /\ resp.status_code = 200
    /\ \A i \in 1..Len(resp.loads) :
         /\ \E j \in 1..Len(Catalog) : Catalog[j] = resp.loads[i]
         /\ SatisfiesFilters(resp.loads[i], req)
    /\ \A j \in 1..Len(Catalog) :
         (SatisfiesFilters(Catalog[j], req) /\ Len(Catalog) <= req.max_results)
           => \E i \in 1..Len(resp.loads) : resp.loads[i] = Catalog[j]

C3_Witness ==
  /\ SearchAnswered
  /\ req.equipment_type = Some(sDryVanLower \o <<" ">>)
  /\ Supplied(req.origin)
  /\ \E j \in 1..Len(Catalog) : Catalog[j] = Load3
  /\ resp.loads # <<>>
  /\ \A i \in 1..Len(resp.loads) : resp.loads[i] # Load3

Passing(items, r) == {j \in 1..Len(items) : SatisfiesFilters(items[j], r)}

Smaller(a, b) == IF a < b THEN a ELSE b

\* the first min(N, M) passing records of items, in the order of items
FirstPassing(items, r) ==
  LET P == Passing(items, r)
      nth(i) == CHOOSE j \in P : Cardinality({x \in P : x < j}) = i - 1
  IN  [i \in 1..Smaller(r.max_results, Cardinality(P)) |-> items[nth(i)]]

\* C4: with cap N and M catalog records passing all supplied filters, the
\* result is exactly the first min(N, M) passing records in catalog order:
\* N records when M >= N, none skipped for a later one, order kept.
C4_FirstPassingInOrder == SearchAnswered => resp.loads = FirstPassing(Catalog, req)

C4_Witness ==
  /\ SearchAnswered
  /\ Supplied(req.origin)
  /\ Cardinality(Passing(Catalog, req)) > req.max_results
  /\ Cardinality(Passing(Catalog, req)) < Len(Catalog)
  /\ \E j \in 1..Len(Catalog) : j \notin Passing(Catalog, req) /\ j + 1 \in Passing(Catalog, req)
  /\ Len(resp.loads) = req.max_results

\* a verify-carrier request whose lookup returned 200 with a non-empty
\* content.carrier object
CarrierCase ==
  /\ pc = "done"
  /\ req.endpoint = "verify"
  /\ outcome # None
  /\ outcome[1].kind = "response"
  /\ outcome[1].status_code = 200
  /\ outcome[1].body.type = "object"
  /\ "content" \in DOMAIN outcome[1].body.members
  /\ outcome[1].body.members["content"].type = "object"
  /\ "carrier" \in DOMAIN outcome[1].body.members["content"].members
  /\ outcome[1].body.members["content"].members["carrier"].type = "object"
  /\ DOMAIN outcome[1].body.members["content"].members["carrier"].members # {}

TheCarrier == outcome[1].body.members["content"].members["carrier"].members

AllowedIsY ==
  /\ "allowedToOperate" \in DOMAIN TheCarrier
  /\ TheCarrier["allowedToOperate"] = JStr(<<"Y">>)

OosDatePresent ==
  /\ "oosDate" \in DOMAIN TheCarrier
  /\ TheCarrier["oosDate"].type # "null"

\* C5: on a 200 response with a non-empty content.carrier, is_eligible is true
\* iff allowedToOperate is exactly "Y" and the out-of-service date is absent
\* (missing or null); a missing allowedToOperate counts as not "Y".
C5_EligibleIff ==
  CarrierCase =>
    /\ resp.verdict # NoVerdict
    /\ resp.verdict[1].is_eligible = (AllowedIsY /\ ~OosDatePresent)

C5_Witness ==
  /\ CarrierCase
  /\ AllowedIsY
  /\ OosDatePresent
  /\ TheCarrier["oosDate"] = JStr(<<>>)
  /\ resp.verdict[1].is_eligible = FALSE

\* C6: on such a response operating_status is "Out of Service" whenever an
\* out-of-service date is present, whatever its value; otherwise "Active" if
\* allowedToOperate is "Y", otherwise "Not Authorized"; so no verdict is
\* is_eligible=false with operating_status "Active".
C6_OperatingStatus ==
  CarrierCase =>
    /\ resp.verdict # NoVerdict
    /\ resp.verdict[1].operating_status =
         Some(IF OosDatePresent THEN <<"Out of Service">>
              ELSE IF AllowedIsY THEN <<"Active">> ELSE <<"Not Authorized">>)
    /\ ~(resp.verdict[1].is_eligible = FALSE
         /\ resp.verdict[1].operating_status = Some(<<"Active">>))

\* C7: when the lookup returns a non-success status other than 404, the caller
\* receives the failure the status branch raised: "Invalid FMCSA API key" for
\* 401, "FMCSA API error: <status> - <first 200 characters of the body>" for any
\* other status, neither replaced by the "Unexpected error" failure.
C7_StatusBranchFailureReachesCaller ==
  (/\ pc = "done"
   /\ req.endpoint = "verify"
   /\ outcome # None
   /\ outcome[1].kind = "response"
   /\ outcome[1].status_code \notin {200, 404})
  => /\ resp.status_code = 500
     /\ resp.detail =
          (IF outcome[1].status_code = 401 THEN <<"Invalid FMCSA API key">>
           ELSE <<"FMCSA API error: ">> \o Str(outcome[1].status_code) \o <<" - ">>
                \o Take(outcome[1].text, EXCERPT_LEN))

ConfigurationError500 ==
  /\ pc = "done"
  /\ resp.status_code = 500
  /\ resp.detail =
       <<"FMCSA API key not configured. Set FMCSA_API_KEY environment variable.">>

\* C8: a verify-carrier request that passes authentication, has an all-digit
\* identifier and runs with a configured registry credential issues exactly one
\* lookup, whatever its outcome, and never a second; one that fails
\* authentication or format validation, or runs without the credential (which
\* fails with the server-side configuration error), issues none.
C8_ExactlyOneLookup ==
  /\ calls \in {0, 1}
  /\ (pc # "idle" /\ req.endpoint # "verify") => calls = 0
  /\ (pc # "idle" /\ req.endpoint = "verify") =>
       /\ (ValidCredential(req) /\ IsDigit(req.mc_number) /\ FMCSA_API_KEY # <<>>)
            => calls = 1
       /\ (~ValidCredential(req) \/ ~IsDigit(Strip(req.mc_number)) \/ FMCSA_API_KEY = <<>>)
            => (calls = 0 /\ pc = "done")
       /\ (ValidCredential(req) /\ IsDigit(Strip(req.mc_number)) /\ FMCSA_API_KEY = <<>>)
            => ConfigurationError500
       /\ outcome # None => calls = 1

C8_Witness ==
  /\ pc = "done"
  /\ req.endpoint = "verify"
  /\ outcome # None
  /\ outcome[1].kind = "timeout"
  /\ resp.status_code = 504
  /\ calls = 1

C10_AcceptedTokenNonEmpty ==
  (pc # "idle" /\ Protected /\ resp.status_code # 403) =>
    /\ API_KEY # <<>>
    /\ req.authorization # None
    /\ Len(req.authorization[1]) > Len(sApiKey) + 1

====
